---- MODULE Spec2Model ----
(***************************************************************************)
(* Model of the backend feature-wiring initializer (BackendInitializer).   *)
(*                                                                         *)
(* The initializer collects features with add(), and start() wires them:   *)
(* it creates the service registry, asks the optional feature discovery    *)
(* service for more features, instantiates the root scoped services,       *)
(* indexes the plugin and module registrations, initializes every plugin   *)
(* (modules first, in extension point order) and finally signals the       *)
(* plugin and root lifecycles.  stop() waits for the start and shuts the   *)
(* root lifecycle down.                                                    *)
(*                                                                         *)
(* Every await of the source is a point where other tasks may run, so the  *)
(* asynchronous functions are cut into one action per awaited operation.   *)
(***************************************************************************)
EXTENDS Integers, Sequences, FiniteSets, TLC

(***************************************************************************)
(* Bounds of the model.                                                    *)
(***************************************************************************)
\* features in play: added with add() plus returned by the discovery service
MaxFeatures == 2
\* features the discovery service returns
MaxDiscovered == 1
\* calls of stop()
MaxStops == 2
\* calls of stop() made before start()
MaxEarlyStops == 1

(***************************************************************************)
(* Small helpers on sequences.                                             *)
(***************************************************************************)
Range(s) == { s[i] : i \in 1..Len(s) }

SeqsUpTo(S, n) == UNION { [1..k -> S] : k \in 0..n }

RECURSIVE Concat(_)
Concat(ss) == IF ss = <<>> THEN <<>> ELSE Head(ss) \o Concat(Tail(ss))

\* the elements of s in order, each kept at its first occurrence only
\* (t and firsts are bound as values, so that each is computed once)
Dedup(s) ==
    CHOOSE r \in
      { [k \in 1..Cardinality(firsts) |->
           t[CHOOSE i \in firsts : Cardinality({ j \in firsts : j <= i }) = k]] :
        t \in {s},
        firsts \in {{ i \in 1..Len(s) : \A j \in 1..(i - 1) : s[j] # s[i] }} } :
      TRUE

(***************************************************************************)
(* Errors.  The source throws plain Error objects told apart by their      *)
(* message; kind names the message and detail holds the values the message *)
(* is built from.                                                          *)
(***************************************************************************)
Err(kind, detail) == [kind |-> kind, detail |-> detail]

NoError == Err("none", <<>>)

(***************************************************************************)
(* Features.                                                               *)
(***************************************************************************)
FeatureType == "@backstage/BackendFeature"

Reg(type, pluginId, moduleId, extensionPoints, deps) ==
    [type |-> type, pluginId |-> pluginId, moduleId |-> moduleId,
     extensionPoints |-> extensionPoints, deps |-> deps]

\* a service factory feature: it exposes `service`
FactoryFeature(id, scope, deps, impl) ==
    [type |-> FeatureType, service |-> id, scope |-> scope, sdeps |-> deps,
     impl |-> impl, hasRegistrations |-> FALSE, version |-> "", regs |-> <<>>]

\* a plugin or module feature: it has getRegistrations() and a version
RegFeature(version, regs) ==
    [type |-> FeatureType, service |-> "", scope |-> "", sdeps |-> <<>>,
     impl |-> "", hasRegistrations |-> TRUE, version |-> version, regs |-> regs]

\* the features the environment may hand to add() or return from discovery
Catalog ==
    [ PlugA   |-> RegFeature("v1", << Reg("plugin", "A", "", <<"EA">>, <<"rootLogger">>) >>),
      PlugB   |-> RegFeature("v1", << Reg("plugin", "B", "", <<>>, <<>>) >>),
      ModsB   |-> RegFeature("v1", << Reg("module", "B", "m1", <<"X">>, <<>>),
                                      Reg("module", "B", "m2", <<>>, <<"X">>),
                                      Reg("module", "B", "m3", <<"W">>, <<"X">>) >>),
      CycB    |-> RegFeature("v1", << Reg("module", "B", "c1", <<"Y">>, <<"Z">>),
                                      Reg("module", "B", "c2", <<"Z">>, <<"Y">>) >>),
      ModA    |-> RegFeature("v1", << Reg("module", "A", "m1", <<>>, <<"EA", "X">>) >>),
      Foo     |-> FactoryFeature("foo", "plugin", <<>>, "FooImpl"),
      Meta    |-> FactoryFeature("pluginMetadata", "plugin", <<>>, "MetaImpl"),
      RootLc  |-> FactoryFeature("rootLifecycle", "root", <<>>, "CustomLifecycle"),
      BadType |-> [RegFeature("v1", <<>>) EXCEPT !.type = "other"],
      BadVer  |-> RegFeature("v2", <<>>),
      BadShape |-> [RegFeature("", <<>>) EXCEPT !.hasRegistrations = FALSE] ]

FeatureNames == DOMAIN Catalog

\* the features the discovery service may return
Discoverable == {"PlugA", "Foo", "Meta", "BadType", "BadVer", "BadShape"}

(***************************************************************************)
(* Service factories handed to the constructor.                            *)
(***************************************************************************)
\* throws: the factory function throws whenever it is run
Factory(id, scope, deps, impl, throws) ==
    [id |-> id, scope |-> scope, deps |-> deps, impl |-> impl, throws |-> throws]

StandardFactories ==
    << Factory("rootLogger", "root", <<>>, "RootLogger", FALSE),
       Factory("rootLifecycle", "root", <<"rootLogger">>, "BackendLifecycleImpl", FALSE),
       Factory("pluginMetadata", "plugin", <<>>, "PluginMetadata", FALSE),
       Factory("lifecycle", "plugin", <<"rootLifecycle", "pluginMetadata">>,
               "BackendPluginLifecycleImpl", FALSE) >>

\* the standard factories with a root logger factory that throws
BrokenFactories ==
    [StandardFactories EXCEPT ![1] = [@ EXCEPT !.throws = TRUE]]

DiscoveryFactory ==
    Factory("featureDiscovery", "root", <<>>, "FeatureDiscovery", FALSE)

VARIABLES
    features,                  \* #features, as names of Catalog
    providedServiceFactories,  \* #providedServiceFactories, as names of Catalog
    defaultApiFactories,       \* #defaultApiFactories
    discovered,                \* what featureDiscovery.getBackendFeatures() returns
    startPromise,              \* #startPromise: [state, error]
    serviceHolder,             \* #serviceHolder: [created, factories]
    implementations,           \* the registry's instances, as <<service id, scope key>>
    extensionPoints,           \* #extensionPoints: extension point id -> plugin id
    pluginInits,               \* doStart's pluginInits: plugin id -> init
    moduleInits,               \* doStart's moduleInits: <<plugin id, module id>> -> init
    allPluginIds,              \* doStart's allPluginIds
    pc,                        \* where #doStart stands
    rootIdx,                   \* the position of the root service loop
    pluginTask,                \* per plugin id: where its initialization stands
    moduleTask,                \* per <<plugin id, module id>>: where its visit stands
    pluginInitFunc,            \* per registered plugin: state of its init.func
    pluginLifecycle,           \* per plugin id: state of the plugin lifecycle startup()
    rootLifecycle,             \* the root lifecycle: the states of startup() and
                               \* shutdown() and how often each was called
    stops,                     \* per call of stop(): where it stands
    thrown,                    \* what the last call of add(), start() or stop() threw
    exitHandlers,              \* listeners start() has registered per process event
    exitListeners,             \* the process events the exit handler listens to
    exitStops,                 \* the calls of stop() the exit handler has made
    exitCode,                  \* the codes process.exit() was called with
    errorHandlers,             \* listeners registered for unhandled errors
    nodeEnv                    \* process.env.NODE_ENV as read by #doStart

vars == << features, providedServiceFactories, defaultApiFactories, discovered,
           startPromise, serviceHolder, implementations, extensionPoints,
           pluginInits, moduleInits, allPluginIds, pc, rootIdx, pluginTask,
           moduleTask, pluginInitFunc, pluginLifecycle, rootLifecycle, stops, thrown,
           exitHandlers, exitListeners, exitStops, exitCode, errorHandlers,
           nodeEnv >>

\* the variables of the exit handler
exitVars == << exitListeners, exitStops, exitCode >>

\* the variables only #doStart and the tasks it starts write
startVars == << serviceHolder, implementations, extensionPoints, pluginInits,
                moduleInits, allPluginIds, pc, rootIdx, pluginTask, moduleTask,
                pluginInitFunc, pluginLifecycle, errorHandlers, nodeEnv >>

Empty == [x \in {} |-> x]

Promise(state, error) == [state |-> state, error |-> error]

Started == startPromise.state # "none"

(***************************************************************************)
(* The service registry (ServiceRegistry): the last factory given for a    *)
(* service id is the one used, instances are kept per scope key, and a     *)
(* factory runs after its dependencies have been resolved.                 *)
(***************************************************************************)
NoFactory == Factory("", "", <<>>, "undefined", FALSE)

\* variant: the registry is created from the defaults alone
RegistryFactoriesDefaults(defaults, provided) == defaults

\* the factories create() is given: the defaults, then the provided ones
RegistryFactories(defaults, provided) ==
    defaults \o [i \in 1..Len(provided) |->
                   LET f == Catalog[provided[i]]
                   IN Factory(f.service, f.scope, f.sdeps, f.impl, FALSE)]

FactoryFor(factories, id) ==
    LET at == { i \in 1..Len(factories) : factories[i].id = id }
    IN IF at = {} THEN NoFactory
       ELSE factories[CHOOSE i \in at : \A j \in at : j <= i]

\* getServiceRefs(): every service id known, once each
ServiceRefs(factories) == Dedup([i \in 1..Len(factories) |-> factories[i].id])

ScopeKey(factory, pluginId) ==
    << factory.id, IF factory.scope = "root" THEN "root" ELSE pluginId >>

\* get(id, pluginId) given the instances `have`, as [impl, error, have]:
\* undefined for a service without factory; else the cached instance; else
\* the dependencies are resolved under the same plugin id (each must have a
\* factory, and none may lead back to a service being resolved), the factory
\* runs and its instance is kept.  Instances created before an error stay.
\* (f, d and first are bound as values, so that each is computed once.)
RECURSIVE Resolve(_, _, _, _, _)
RECURSIVE ResolveDeps(_, _, _, _, _)
Resolve(factories, have, id, pluginId, stack) ==
    CHOOSE r \in
      { IF f = NoFactory
        THEN [impl |-> "undefined", have |-> have,
              error |-> IF stack = {} THEN NoError ELSE Err("MissingDependency", <<id>>)]
        ELSE IF ScopeKey(f, pluginId) \in have
        THEN [impl |-> f.impl, error |-> NoError, have |-> have]
        ELSE IF id \in stack
        THEN [impl |-> "undefined", error |-> Err("ServiceCycle", <<id>>), have |-> have]
        ELSE CHOOSE q \in
               { IF d.error # NoError THEN d
                 ELSE IF f.throws
                 THEN [impl |-> "undefined", error |-> Err("ServiceFactoryFailed", <<id>>),
                       have |-> d.have]
                 ELSE [impl |-> f.impl, error |-> NoError,
                       have |-> d.have \cup {ScopeKey(f, pluginId)}] :
                 d \in {ResolveDeps(factories, have, f.deps, pluginId, stack \cup {id})} } :
               TRUE :
        f \in {FactoryFor(factories, id)} } :
      TRUE

ResolveDeps(factories, have, deps, pluginId, stack) ==
    IF deps = <<>>
    THEN [impl |-> "undefined", error |-> NoError, have |-> have]
    ELSE CHOOSE r \in
           { IF first.error # NoError THEN first
             ELSE ResolveDeps(factories, first.have, Tail(deps), pluginId, stack) :
             first \in {Resolve(factories, have, Head(deps), pluginId, stack)} } :
           TRUE

Get(factories, have, id, pluginId) == Resolve(factories, have, id, pluginId, {})

(***************************************************************************)
(* add() and #addFeature.                                                  *)
(***************************************************************************)
isServiceFactory(feature) == feature.service # ""

isInternalBackendFeature(feature) == feature.hasRegistrations

\* variant: an override for a service id already overridden is accepted
AddFeatureErrorNoDuplicate(f, provided) ==
    LET feature == Catalog[f] IN
    IF feature.type # FeatureType
    THEN Err("MalformedFeature", <<"type">>)
    ELSE IF isServiceFactory(feature)
    THEN IF feature.service = "pluginMetadata"
         THEN Err("ForbiddenServiceOverride", <<feature.service>>)
         ELSE NoError
    ELSE IF isInternalBackendFeature(feature)
    THEN IF feature.version # "v1"
         THEN Err("UnsupportedFeatureVersion", <<feature.version>>)
         ELSE NoError
    ELSE Err("MalformedFeature", <<"shape">>)

\* the error #addFeature throws for the feature named f, NoError when it accepts
AddFeatureError(f, provided) ==
    LET feature == Catalog[f] IN
    IF feature.type # FeatureType
    THEN Err("MalformedFeature", <<"type">>)
    ELSE IF isServiceFactory(feature)
    THEN IF feature.service = "pluginMetadata"
         THEN Err("ForbiddenServiceOverride", <<feature.service>>)
         ELSE IF \E i \in 1..Len(provided) :
                     Catalog[provided[i]].service = feature.service
         THEN Err("DuplicateServiceImpl", <<feature.service>>)
         ELSE NoError
    ELSE IF isInternalBackendFeature(feature)
    THEN IF feature.version # "v1"
         THEN Err("UnsupportedFeatureVersion", <<feature.version>>)
         ELSE NoError
    ELSE Err("MalformedFeature", <<"shape">>)

\* #features after #addFeature(f)
AddFeatureFeatures(f, feats, provided) ==
    IF AddFeatureError(f, provided) = NoError /\ ~isServiceFactory(Catalog[f])
    THEN Append(feats, f) ELSE feats

\* #providedServiceFactories after #addFeature(f)
AddFeatureProvided(f, provided) ==
    IF AddFeatureError(f, provided) = NoError /\ isServiceFactory(Catalog[f])
    THEN Append(provided, f) ELSE provided

\* variant: add() is refused only once the start has resolved
AddRefusedAfterResolve == startPromise.state = "resolved"

\* add() refuses once #startPromise is set
AddRefused == Started

\* The calls of add() and start() that are refused are followed until stop()
\* is first called.
LateCallsOpen == \A i \in 1..MaxStops : stops[i].phase = "idle"

\* what add(f) throws, NoError when it returns
AddError(f) ==
    IF AddRefused THEN Err("AlreadyStarted", <<"add">>)
    ELSE AddFeatureError(f, providedServiceFactories)

InPlay == Len(features) + Len(providedServiceFactories) + Len(discovered)

Add(f) ==
    /\ AddRefused => LateCallsOpen
    /\ AddError(f) = NoError => InPlay < MaxFeatures
    /\ thrown' = AddError(f)
    /\ IF AddRefused
       THEN UNCHANGED << features, providedServiceFactories >>
       ELSE /\ features' = AddFeatureFeatures(f, features, providedServiceFactories)
            /\ providedServiceFactories' =
                   AddFeatureProvided(f, providedServiceFactories)
    /\ UNCHANGED << defaultApiFactories, discovered, startPromise, stops,
                    exitHandlers, exitVars, rootLifecycle >>
    /\ UNCHANGED startVars

(***************************************************************************)
(* start(): the guard, the exit handlers, and #doStart up to its first     *)
(* await (the registry is created).                                        *)
(***************************************************************************)
\* the process events start() registers its exit handler for
ExitEvents == {"SIGTERM", "SIGINT", "beforeExit"}

\* variant: start() is refused only while a start is in flight
StartRefusedInFlight == startPromise.state = "pending"

StartRefused == Started

\* what start() throws before it returns its promise, NoError when it does
StartError == IF StartRefused THEN Err("AlreadyStarted", <<"start">>) ELSE NoError

Start ==
    /\ StartRefused => LateCallsOpen
    /\ thrown' = StartError
    /\ IF StartRefused
       THEN /\ UNCHANGED << features, providedServiceFactories,
                            defaultApiFactories, discovered, startPromise, stops,
                            exitHandlers, exitVars, rootLifecycle >>
            /\ UNCHANGED startVars
       ELSE /\ exitHandlers' = exitHandlers + 1
            /\ exitListeners' = exitListeners \cup ExitEvents
            /\ UNCHANGED << exitStops, exitCode >>
            /\ startPromise' = Promise("pending", NoError)
            /\ serviceHolder' =
                   [created |-> TRUE,
                    factories |-> RegistryFactories(defaultApiFactories,
                                                    providedServiceFactories)]
            /\ pc' = "discovery"
            /\ UNCHANGED << features, providedServiceFactories,
                            defaultApiFactories, discovered, stops, rootLifecycle,
                            implementations, extensionPoints, pluginInits,
                            moduleInits, allPluginIds, rootIdx, pluginTask,
                            moduleTask, pluginInitFunc, pluginLifecycle, errorHandlers, nodeEnv >>

\* #doStart throws: the start promise rejects
FailStart(error) ==
    /\ startPromise' = Promise("rejected", error)
    /\ pc' = "failed"

(***************************************************************************)
(* #doStart: feature discovery.                                            *)
(***************************************************************************)
\* variant: the features of the discovery service are added unchecked
AddAllUnchecked(fs, feats, provided) ==
    [error |-> NoError,
     features |-> feats \o SelectSeq(fs, LAMBDA f : ~isServiceFactory(Catalog[f])),
     provided |-> provided \o SelectSeq(fs, LAMBDA f : isServiceFactory(Catalog[f]))]

\* #addFeature applied to each of fs in turn, stopping at the first throw
RECURSIVE AddAll(_, _, _)
AddAll(fs, feats, provided) ==
    IF fs = <<>>
    THEN [error |-> NoError, features |-> feats, provided |-> provided]
    ELSE IF AddFeatureError(Head(fs), provided) # NoError
    THEN [error |-> AddFeatureError(Head(fs), provided),
          features |-> feats, provided |-> provided]
    ELSE AddAll(Tail(fs), AddFeatureFeatures(Head(fs), feats, provided),
                AddFeatureProvided(Head(fs), provided))

Discover ==
    /\ pc = "discovery"
    /\ LET o == Get(serviceHolder.factories, implementations,
                             "featureDiscovery", "root") IN
          /\ implementations' = o.have
          /\ IF o.error # NoError
             THEN /\ FailStart(o.error)
                  /\ UNCHANGED << features, providedServiceFactories >>
             ELSE IF o.impl = "undefined"
             THEN /\ pc' = "rootServices"
                  /\ UNCHANGED << features, providedServiceFactories, startPromise >>
             ELSE LET r == AddAll(discovered, features, providedServiceFactories)
                  IN /\ features' = r.features
                     /\ providedServiceFactories' = r.provided
                     /\ IF r.error # NoError
                        THEN FailStart(r.error)
                        ELSE pc' = "rootServices" /\ UNCHANGED startPromise
    /\ UNCHANGED << defaultApiFactories, discovered, serviceHolder, extensionPoints,
                    pluginInits, moduleInits, allPluginIds, rootIdx, pluginTask,
                    moduleTask, pluginInitFunc, pluginLifecycle, rootLifecycle, stops, thrown,
                    exitHandlers, exitVars, errorHandlers, nodeEnv >>

(***************************************************************************)
(* #doStart: every root scoped service is instantiated, one get() at a     *)
(* time in the order of getServiceRefs().                                  *)
(***************************************************************************)
RootRefs(factories) ==
    SelectSeq(ServiceRefs(factories),
              LAMBDA id : FactoryFor(factories, id).scope = "root")

InitRootService ==
    /\ pc = "rootServices"
    /\ rootIdx <= Len(RootRefs(serviceHolder.factories))
    /\ \E id \in {RootRefs(serviceHolder.factories)[rootIdx]} :
       \E o \in {Get(serviceHolder.factories, implementations, id, "root")} :
          /\ implementations' = o.have
          /\ IF o.error # NoError
             THEN FailStart(o.error) /\ UNCHANGED rootIdx
             ELSE rootIdx' = rootIdx + 1 /\ UNCHANGED << pc, startPromise >>
    /\ UNCHANGED << features, providedServiceFactories, defaultApiFactories,
                    discovered, serviceHolder, extensionPoints, pluginInits,
                    moduleInits, allPluginIds, pluginTask, moduleTask,
                    pluginInitFunc, pluginLifecycle, rootLifecycle, stops, thrown, exitHandlers, exitVars,
                    errorHandlers, nodeEnv >>

(***************************************************************************)
(* #doStart: the registrations of every feature are indexed.               *)
(***************************************************************************)
Registrations(feats) == Concat([i \in 1..Len(feats) |-> Catalog[feats[i]].regs])

InitOf(r, provides) ==
    [provides |-> provides, consumes |-> Range(r.deps), deps |-> r.deps]

\* variant: a registered extension point id is registered again, the later
\* registration replacing the earlier
IndexExtensionPointsOverwrite(ids, pluginId, table) ==
    [error |-> NoError, table |-> [e \in Range(ids) |-> pluginId] @@ table]

\* the extension points of one registration enter the table, up to a duplicate
RECURSIVE IndexExtensionPoints(_, _, _)
IndexExtensionPoints(ids, pluginId, table) ==
    IF ids = <<>>
    THEN [error |-> NoError, table |-> table]
    ELSE IF Head(ids) \in DOMAIN table
    THEN [error |-> Err("DuplicateExtensionPoint", <<Head(ids)>>), table |-> table]
    ELSE IndexExtensionPoints(Tail(ids), pluginId, (Head(ids) :> pluginId) @@ table)

\* one registration r is indexed into ix = [error, table, plugins, modules,
\* pluginKeys, moduleKeys]
IndexRegistration(r, ix) ==
    LET ext == IF r.type \in {"plugin", "module"}
               THEN IndexExtensionPoints(r.extensionPoints, r.pluginId, ix.table)
               ELSE [error |-> NoError, table |-> ix.table]
        provides == IF r.type \in {"plugin", "module"}
                    THEN Range(r.extensionPoints) ELSE {}
        withExt == [ix EXCEPT !.table = ext.table]
    IN IF ext.error # NoError
       THEN [withExt EXCEPT !.error = ext.error]
       ELSE IF r.type = "plugin"
       THEN IF r.pluginId \in DOMAIN ix.plugins
            THEN [withExt EXCEPT
                    !.error = Err("DuplicatePluginRegistration", <<r.pluginId>>)]
            ELSE [withExt EXCEPT
                    !.plugins = (r.pluginId :> InitOf(r, provides)) @@ ix.plugins,
                    !.pluginKeys = Append(ix.pluginKeys, r.pluginId)]
       ELSE IF << r.pluginId, r.moduleId >> \in DOMAIN ix.modules
            THEN [withExt EXCEPT
                    !.error = Err("DuplicateModuleRegistration",
                                  <<r.moduleId, r.pluginId>>)]
            ELSE [withExt EXCEPT
                    !.modules = (<< r.pluginId, r.moduleId >> :> InitOf(r, provides))
                                @@ ix.modules,
                    !.moduleKeys = Append(ix.moduleKeys, << r.pluginId, r.moduleId >>)]

\* (the registration and the index after it are bound as values)
RECURSIVE IndexAll(_, _)
IndexAll(regs, ix) ==
    IF regs = <<>> \/ ix.error # NoError THEN ix
    ELSE CHOOSE r \in
           { IndexAll(Tail(regs), next) :
             next \in { IndexRegistration(first, ix) : first \in {Head(regs)} } } :
           TRUE

\* the index of the features, started from the extension point table as it is
IndexFeatures(feats, table) ==
    CHOOSE r \in
      { IndexAll(regs,
                 [error |-> NoError, table |-> table, plugins |-> Empty,
                  modules |-> Empty, pluginKeys |-> <<>>, moduleKeys |-> <<>>]) :
        regs \in {Registrations(feats)} } :
      TRUE

\* variant: the keys of pluginInits and of moduleInits, not made a set
AllPluginIdsRepeated(ix) ==
    ix.pluginKeys \o [i \in 1..Len(ix.moduleKeys) |-> ix.moduleKeys[i][1]]

\* variant: only the registered plugins are initialized
AllPluginIdsRegistered(ix) == ix.pluginKeys

\* allPluginIds: the keys of pluginInits, then those of moduleInits, once each
AllPluginIds(ix) ==
    Dedup(ix.pluginKeys \o [i \in 1..Len(ix.moduleKeys) |-> ix.moduleKeys[i][1]])

(***************************************************************************)
(* The dependency graph (DependencyGraph) of the modules of one plugin.    *)
(***************************************************************************)
\* variant: the node of a module with its relationships not reversed
ModuleNodeForward(moduleId, init) ==
    [value |-> moduleId, consumes |-> init.consumes, provides |-> init.provides]

\* The node of a module.  The relationships are reversed: the node consumes
\* what the module provides and provides what the module consumes.
ModuleNode(moduleId, init) ==
    [value |-> moduleId, consumes |-> init.provides, provides |-> init.consumes]

\* fromIterable(): the nodes of plugin p's modules, in registration order
ModuleNodes(p, keys, modules) ==
    LET mine == SelectSeq(keys, LAMBDA k : k[1] = p)
    IN [i \in 1..Len(mine) |-> ModuleNode(mine[i][2], modules[mine[i]])]

\* n consumes an id that m provides
Edge(n, m) == n.consumes \cap m.provides # {}

Cycles(nodes) ==
    { s \in UNION { [1..k -> 1..Len(nodes)] : k \in 1..Len(nodes) } :
        /\ \A i, j \in 1..Len(s) : i # j => s[i] # s[j]
        /\ \A i \in 1..(Len(s) - 1) : Edge(nodes[s[i]], nodes[s[i + 1]])
        /\ Edge(nodes[s[Len(s)]], nodes[s[1]]) }

\* detectCircularDependency(): <<>> without a cycle, else the values along a
\* cycle, from its first node back to it
DetectCircularDependency(nodes) ==
    IF Cycles(nodes) = {} THEN <<>>
    ELSE LET s == CHOOSE c \in Cycles(nodes) :
                    \A d \in Cycles(nodes) :
                        c[1] < d[1] \/ (c[1] = d[1] /\ Len(c) <= Len(d))
         IN [i \in 1..Len(s) |-> nodes[s[i]].value] \o << nodes[s[1]].value >>

\* variant: a node waits for every id it consumes to be provided by a
\* completed node, also for the ids no node provides
NodeReadyProvided(n, nodes, completed) ==
    \A id \in n.consumes : \E m \in nodes : id \in m.provides /\ m.value \in completed

\* parallelTopologicalTraversal(): a node is ready when every node providing
\* an id it consumes has completed
NodeReady(n, nodes, completed) ==
    \A m \in nodes : Edge(n, m) => m.value \in completed

(***************************************************************************)
(* #doStart: indexing, and the start of every plugin's initialization up   *)
(* to its first await.                                                     *)
(***************************************************************************)
HasModules(p, modules) == \E k \in DOMAIN modules : k[1] = p

\* variant: the cycle check is skipped
CircularErrorSkipped(p, keys, modules) == NoError

\* the error the cycle check throws for plugin p, NoError without a cycle
\* (the nodes and the cycle are bound as values, each computed once)
CircularError(p, keys, modules) ==
    CHOOSE r \in
      { IF circular # <<>>
        THEN Err("CircularModuleDependency", <<p>> \o circular)
        ELSE NoError :
        circular \in { DetectCircularDependency(nodes) :
                         nodes \in {ModuleNodes(p, keys, modules)} } } :
      TRUE

\* where plugin p's initialization stands when the indexing step ends
FirstPhase(p, keys, modules) ==
    IF HasModules(p, modules)
    THEN IF CircularError(p, keys, modules) # NoError THEN "failed" ELSE "modules"
    ELSE "plugin"

\* variant: the loop over the root scoped services ends after the first
RootServicesFirstOnly == rootIdx > 1

\* the loop over the root scoped services has ended
RootServicesDone == rootIdx > Len(RootRefs(serviceHolder.factories))

Index ==
    /\ pc = "rootServices"
    /\ RootServicesDone
    /\ \E ix \in {IndexFeatures(features, extensionPoints)} :
       \E ids \in {AllPluginIds(ix)} :
       \E failing \in {SelectSeq(ids, LAMBDA p :
                           FirstPhase(p, ix.moduleKeys, ix.modules) = "failed")} :
          /\ extensionPoints' = ix.table
          /\ IF ix.error # NoError
             THEN /\ FailStart(ix.error)
                  /\ UNCHANGED << pluginInits, moduleInits, allPluginIds,
                                  pluginTask, moduleTask, pluginInitFunc, pluginLifecycle >>
             ELSE /\ pluginInits' = ix.plugins
                  /\ moduleInits' = ix.modules
                  /\ allPluginIds' = ids
                  /\ pluginTask' = [p \in Range(ids) |->
                                      FirstPhase(p, ix.moduleKeys, ix.modules)]
                  /\ moduleTask' = [k \in DOMAIN ix.modules |-> "waiting"]
                  /\ pluginInitFunc' = [p \in DOMAIN ix.plugins |-> "idle"]
                  /\ pluginLifecycle' = [p \in Range(ids) |-> "Idle"]
                  /\ IF failing # <<>>
                     THEN FailStart(CircularError(failing[1], ix.moduleKeys,
                                                  ix.modules))
                     ELSE pc' = "plugins" /\ UNCHANGED startPromise
    /\ UNCHANGED << features, providedServiceFactories, defaultApiFactories,
                    discovered, serviceHolder, implementations, rootIdx,
                    rootLifecycle, stops, thrown, exitHandlers, exitVars, errorHandlers,
                    nodeEnv >>

(***************************************************************************)
(* #getInitDeps.                                                           *)
(***************************************************************************)
\* variant: an extension point may be used from any plugin
MayUseAny(owner, pluginId) == TRUE

\* a module or plugin may use the extension points registered for its plugin
MayUse(owner, pluginId) == owner = pluginId

\* variant: the first ref found in neither is reported at once, alone
RECURSIVE InitDepsFirstMissing(_, _, _, _, _, _)
InitDepsFirstMissing(deps, pluginId, table, factories, have, missing) ==
    IF deps = <<>>
    THEN [error |-> NoError, have |-> have]
    ELSE LET ref == Head(deps) IN
         IF ref \in DOMAIN table
         THEN IF ~MayUse(table[ref], pluginId)
              THEN [error |-> Err("ExtensionPointOwnershipViolation",
                                  <<table[ref], pluginId>>),
                    have |-> have]
              ELSE InitDepsFirstMissing(Tail(deps), pluginId, table, factories,
                                        have, missing)
         ELSE LET o == Get(factories, have, ref, pluginId) IN
              IF o.error # NoError
              THEN [error |-> o.error, have |-> o.have]
              ELSE IF o.impl = "undefined"
              THEN [error |-> Err("UnresolvedDependencies", <<ref>>), have |-> o.have]
              ELSE InitDepsFirstMissing(Tail(deps), pluginId, table, factories,
                                        o.have, missing)

\* #getInitDeps(deps, pluginId) from the ref deps[1] on, as [error, have]:
\* each ref is looked up in the extension point table, then in the registry;
\* the refs found in neither are reported together after the loop.
RECURSIVE InitDepsFrom(_, _, _, _, _, _)
InitDepsFrom(deps, pluginId, table, factories, have, missing) ==
    IF deps = <<>>
    THEN [error |-> IF missing # <<>>
                    THEN Err("UnresolvedDependencies", missing) ELSE NoError,
          have |-> have]
    ELSE LET ref == Head(deps) IN
         IF ref \in DOMAIN table
         THEN IF ~MayUse(table[ref], pluginId)
              THEN [error |-> Err("ExtensionPointOwnershipViolation",
                                  <<table[ref], pluginId>>),
                    have |-> have]
              ELSE InitDepsFrom(Tail(deps), pluginId, table, factories, have, missing)
         ELSE LET o == Get(factories, have, ref, pluginId) IN
              IF o.error # NoError
              THEN [error |-> o.error, have |-> o.have]
              ELSE InitDepsFrom(Tail(deps), pluginId, table, factories, o.have,
                                IF o.impl = "undefined"
                                THEN Dedup(Append(missing, ref)) ELSE missing)

GetInitDeps(deps, pluginId) ==
    InitDepsFrom(deps, pluginId, extensionPoints, serviceHolder.factories,
                 implementations, <<>>)

(***************************************************************************)
(* #doStart: the initialization of one plugin.  Plugins run in parallel    *)
(* under Promise.all, which rejects with the first failure while the other *)
(* plugins keep running.                                                   *)
(***************************************************************************)
\* plugin p's initialization throws
TaskFails(p, error) ==
    /\ pluginTask' = [pluginTask EXCEPT ![p] = "failed"]
    /\ IF pc = "plugins"
       THEN FailStart(error)
       ELSE UNCHANGED << pc, startPromise >>

PluginNodes(p) ==
    { ModuleNode(k[2], moduleInits[k]) : k \in { j \in DOMAIN moduleInits : j[1] = p } }

Completed(p) ==
    { k[2] : k \in { j \in DOMAIN moduleInits : j[1] = p /\ moduleTask[j] = "done" } }

\* the traversal visits module m of plugin p: its deps are resolved and its
\* init.func is called
ModuleVisit(p, m) ==
    /\ pluginTask[p] = "modules"
    /\ moduleTask[<< p, m >>] = "waiting"
    /\ NodeReady(ModuleNode(m, moduleInits[<< p, m >>]), PluginNodes(p), Completed(p))
    /\ LET o == GetInitDeps(moduleInits[<< p, m >>].deps, p) IN
          /\ implementations' = o.have
          /\ IF o.error # NoError
             THEN /\ moduleTask' = [moduleTask EXCEPT ![<< p, m >>] = "depsFailed"]
                  /\ TaskFails(p, o.error)
             ELSE /\ moduleTask' = [moduleTask EXCEPT ![<< p, m >>] = "running"]
                  /\ UNCHANGED << pluginTask, pc, startPromise >>
    /\ UNCHANGED << features, providedServiceFactories, defaultApiFactories,
                    discovered, serviceHolder, extensionPoints, pluginInits,
                    moduleInits, allPluginIds, rootIdx, pluginInitFunc, pluginLifecycle,
                    rootLifecycle, stops, thrown, exitHandlers, exitVars, errorHandlers,
                    nodeEnv >>

\* variant: the rejection of a module init.func is passed on as it is
ModuleFailureUnwrapped(p, m) == Err("boom", <<>>)

\* the error a rejected module init.func is forwarded as
ModuleStartupFailed(p, m) == Err("ModuleStartupFailed", << m, p, "boom" >>)

\* the init.func of module m of plugin p settles; the traversal is over when
\* every module has completed
ModuleInitDone(p, m, ok) ==
    /\ moduleTask[<< p, m >>] = "running"
    /\ moduleTask' = [moduleTask EXCEPT
                         ![<< p, m >>] = IF ok THEN "done" ELSE "initFailed"]
    /\ IF pluginTask[p] # "modules"
       THEN UNCHANGED << pluginTask, pc, startPromise >>
       ELSE IF ~ok
       THEN TaskFails(p, ModuleStartupFailed(p, m))
       ELSE /\ pluginTask' =
                  [pluginTask EXCEPT
                     ![p] = IF \A k \in DOMAIN moduleInits :
                                  k[1] = p => moduleTask'[k] = "done"
                            THEN "plugin" ELSE "modules"]
            /\ UNCHANGED << pc, startPromise >>
    /\ UNCHANGED << features, providedServiceFactories, defaultApiFactories,
                    discovered, serviceHolder, implementations, extensionPoints,
                    pluginInits, moduleInits, allPluginIds, rootIdx,
                    pluginInitFunc, pluginLifecycle, rootLifecycle, stops, thrown, exitHandlers, exitVars,
                    errorHandlers, nodeEnv >>

\* variant: the plugin's init does not wait for the traversal of its modules
PluginInitEager(p) == pluginTask[p] \in {"modules", "plugin"}

\* the traversal of plugin p's modules is awaited before the plugin itself
PluginInitReady(p) == pluginTask[p] = "plugin"

\* after the modules: the plugin's own deps are resolved and its init.func is
\* called, when the plugin is registered
PluginInit(p) ==
    /\ PluginInitReady(p)
    /\ IF p \in DOMAIN pluginInits
       THEN LET o == GetInitDeps(pluginInits[p].deps, p) IN
               /\ implementations' = o.have
               /\ IF o.error # NoError
                  THEN TaskFails(p, o.error) /\ UNCHANGED pluginInitFunc
                  ELSE /\ pluginTask' = [pluginTask EXCEPT ![p] = "init"]
                       /\ pluginInitFunc' = [pluginInitFunc EXCEPT ![p] = "running"]
                       /\ UNCHANGED << pc, startPromise >>
       ELSE /\ pluginTask' = [pluginTask EXCEPT ![p] = "lifecycle"]
            /\ UNCHANGED << implementations, pluginInitFunc, pc, startPromise >>
    /\ UNCHANGED << features, providedServiceFactories, defaultApiFactories,
                    discovered, serviceHolder, extensionPoints, pluginInits,
                    moduleInits, allPluginIds, rootIdx, moduleTask,
                    pluginLifecycle, rootLifecycle, stops, thrown, exitHandlers, exitVars,
                    errorHandlers, nodeEnv >>

PluginStartupFailed(p) == Err("PluginStartupFailed", << p, "boom" >>)

\* the plugin's init.func settles
PluginInitDone(p, ok) ==
    /\ pluginTask[p] = "init"
    /\ pluginInitFunc' = [pluginInitFunc EXCEPT ![p] = IF ok THEN "done" ELSE "failed"]
    /\ IF ok
       THEN /\ pluginTask' = [pluginTask EXCEPT ![p] = "lifecycle"]
            /\ UNCHANGED << pc, startPromise >>
       ELSE TaskFails(p, PluginStartupFailed(p))
    /\ UNCHANGED << features, providedServiceFactories, defaultApiFactories,
                    discovered, serviceHolder, implementations, extensionPoints,
                    pluginInits, moduleInits, allPluginIds, rootIdx, moduleTask,
                    pluginLifecycle, rootLifecycle, stops, thrown, exitHandlers, exitVars,
                    errorHandlers, nodeEnv >>

\* #getPluginLifecycleImpl(p), then its startup() is called
PluginLifecycleStartup(p) ==
    /\ pluginTask[p] = "lifecycle"
    /\ LET o == Get(serviceHolder.factories, implementations, "lifecycle", p) IN
          /\ implementations' = o.have
          /\ IF o.error # NoError
             THEN TaskFails(p, o.error) /\ UNCHANGED pluginLifecycle
             ELSE IF o.impl # "BackendPluginLifecycleImpl"
             THEN /\ TaskFails(p, Err("UnexpectedLifecycleImpl", <<"lifecycle">>))
                  /\ UNCHANGED pluginLifecycle
             ELSE IF pluginLifecycle[p] # "Idle"
             THEN /\ TaskFails(p, Err("LifecycleAlreadyInvoked", <<"startup">>))
                  /\ UNCHANGED pluginLifecycle
             ELSE /\ pluginLifecycle' = [pluginLifecycle EXCEPT ![p] = "Running"]
                  /\ pluginTask' = [pluginTask EXCEPT ![p] = "startup"]
                  /\ UNCHANGED << pc, startPromise >>
    /\ UNCHANGED << features, providedServiceFactories, defaultApiFactories,
                    discovered, serviceHolder, extensionPoints, pluginInits,
                    moduleInits, allPluginIds, rootIdx, moduleTask, pluginInitFunc,
                    rootLifecycle, stops, thrown, exitHandlers, exitVars, errorHandlers,
                    nodeEnv >>

\* the plugin lifecycle's startup() settles: its hooks ran, or one threw
PluginStartupDone(p, ok) ==
    /\ pluginTask[p] = "startup"
    /\ pluginLifecycle' = [pluginLifecycle EXCEPT
                              ![p] = IF ok THEN "Done" ELSE "Failed"]
    /\ IF ok
       THEN /\ pluginTask' = [pluginTask EXCEPT ![p] = "done"]
            /\ UNCHANGED << pc, startPromise >>
       ELSE TaskFails(p, Err("StartupHookFailed", << p >>))
    /\ UNCHANGED << features, providedServiceFactories, defaultApiFactories,
                    discovered, serviceHolder, implementations, extensionPoints,
                    pluginInits, moduleInits, allPluginIds, rootIdx, moduleTask,
                    pluginInitFunc, rootLifecycle, stops, thrown, exitHandlers, exitVars,
                    errorHandlers, nodeEnv >>

(***************************************************************************)
(* #doStart: the root lifecycle startup and the handlers of unhandled      *)
(* errors.                                                                 *)
(***************************************************************************)
\* #getRootLifecycleImpl(), as [error, have]
RootLifecycleImpl ==
    IF ~serviceHolder.created
    THEN [error |-> Err("TypeError", <<"serviceHolder">>), have |-> implementations]
    ELSE LET o == Get(serviceHolder.factories, implementations, "rootLifecycle", "root")
         IN [error |-> IF o.error # NoError THEN o.error
                       ELSE IF o.impl # "BackendLifecycleImpl"
                       THEN Err("UnexpectedLifecycleImpl", <<"rootLifecycle">>)
                       ELSE NoError,
             have |-> o.have]

\* variant: the plugin lifecycles' startup() is called but not awaited
AllPluginsStarting == \A p \in DOMAIN pluginTask : pluginTask[p] \in {"startup", "done"}

\* Promise.all over the plugins has resolved
AllPluginsDone == \A p \in DOMAIN pluginTask : pluginTask[p] = "done"

\* every plugin is initialized: #getRootLifecycleImpl(), then startup()
RootStartup ==
    /\ pc = "plugins"
    /\ AllPluginsDone
    /\ LET o == RootLifecycleImpl IN
          /\ implementations' = o.have
          /\ IF o.error # NoError
             THEN FailStart(o.error) /\ UNCHANGED rootLifecycle
             ELSE IF rootLifecycle.startup # "Idle"
             THEN /\ FailStart(Err("LifecycleAlreadyInvoked", <<"startup">>))
                  /\ UNCHANGED rootLifecycle
             ELSE /\ rootLifecycle' = [rootLifecycle EXCEPT !.startup = "Running",
                                                               !.startupCalls = @ + 1]
                  /\ pc' = "rootStartup"
                  /\ UNCHANGED startPromise
    /\ UNCHANGED << features, providedServiceFactories, defaultApiFactories,
                    discovered, serviceHolder, extensionPoints, pluginInits,
                    moduleInits, allPluginIds, rootIdx, pluginTask, moduleTask,
                    pluginInitFunc, pluginLifecycle, stops, thrown, exitHandlers, exitVars, errorHandlers,
                    nodeEnv >>

\* The root startup() settles.  On success NODE_ENV is read and, outside
\* tests, the root logger is fetched and the two handlers of unhandled errors
\* are registered; then the start promise resolves.
RootStartupDone(ok, env) ==
    /\ pc = "rootStartup"
    /\ IF ~ok
       THEN /\ rootLifecycle' = [rootLifecycle EXCEPT !.startup = "Failed"]
            /\ FailStart(Err("StartupHookFailed", <<"root">>))
            /\ UNCHANGED << implementations, errorHandlers, nodeEnv >>
       ELSE /\ rootLifecycle' = [rootLifecycle EXCEPT !.startup = "Done"]
            /\ nodeEnv' = env
            /\ IF env = "test"
               THEN /\ startPromise' = Promise("resolved", NoError)
                    /\ pc' = "done"
                    /\ UNCHANGED << implementations, errorHandlers >>
               ELSE LET o == Get(serviceHolder.factories, implementations,
                                         "rootLogger", "root") IN
                       /\ implementations' = o.have
                       /\ IF o.error # NoError
                          THEN FailStart(o.error) /\ UNCHANGED errorHandlers
                          ELSE /\ errorHandlers' = errorHandlers + 2
                               /\ startPromise' = Promise("resolved", NoError)
                               /\ pc' = "done"
    /\ UNCHANGED << features, providedServiceFactories, defaultApiFactories,
                    discovered, serviceHolder, extensionPoints, pluginInits,
                    moduleInits, allPluginIds, rootIdx, pluginTask, moduleTask,
                    pluginInitFunc, pluginLifecycle, stops, thrown, exitHandlers, exitVars >>

(***************************************************************************)
(* stop().                                                                 *)
(***************************************************************************)
StopState(phase, error) == [phase |-> phase, error |-> error]

\* variant: stop() awaits the start promise whether or not start() was called
StopCallAwaits(i) ==
    /\ stops[i].phase = "idle"
    /\ i > 1 => stops[i - 1].phase # "idle"
    /\ ~Started => i <= MaxEarlyStops
    /\ thrown' = NoError
    /\ stops' = [stops EXCEPT ![i] = StopState("awaitStart", NoError)]
    /\ UNCHANGED << features, providedServiceFactories, defaultApiFactories,
                    discovered, startPromise, rootLifecycle, exitHandlers, exitVars >>
    /\ UNCHANGED startVars

\* stop() is called: it returns at once when start() was never called, and
\* awaits the start promise otherwise
StopCall(i) ==
    /\ stops[i].phase = "idle"
    /\ i > 1 => stops[i - 1].phase # "idle"
    /\ ~Started => i <= MaxEarlyStops
    /\ thrown' = NoError
    /\ stops' = [stops EXCEPT
                    ![i] = IF ~Started THEN StopState("returned", NoError)
                           ELSE StopState("awaitStart", NoError)]
    /\ UNCHANGED << features, providedServiceFactories, defaultApiFactories,
                    discovered, startPromise, rootLifecycle, exitHandlers, exitVars >>
    /\ UNCHANGED startVars

\* variant: stop() goes on without awaiting the start promise
StartCalled == Started

\* the await of the start promise in stop() is over: the promise has settled
StartSettled == startPromise.state \in {"resolved", "rejected"}

\* The start promise has settled (its error is dropped):
\* #getRootLifecycleImpl(), then shutdown() is called; a shutdown() after the
\* first is rejected by the lifecycle.  The calls that await the start
\* promise resume in the order in which they were made.
StopShutdown(i) ==
    /\ stops[i].phase = "awaitStart"
    /\ StartSettled
    /\ \A j \in 1..(i - 1) : stops[j].phase # "awaitStart"
    /\ LET o == RootLifecycleImpl IN
          /\ implementations' = o.have
          /\ IF o.error # NoError
             THEN /\ stops' = [stops EXCEPT ![i] = StopState("rejected", o.error)]
                  /\ UNCHANGED rootLifecycle
             ELSE /\ rootLifecycle' =
                        [rootLifecycle EXCEPT
                           !.shutdownCalls = @ + 1,
                           !.shutdown = IF @ = "Idle" THEN "Running" ELSE @]
                  /\ stops' =
                        [stops EXCEPT
                           ![i] = IF rootLifecycle.shutdown = "Idle"
                                  THEN StopState("shutdown", NoError)
                                  ELSE StopState("rejected",
                                                 Err("LifecycleAlreadyInvoked",
                                                     <<"shutdown">>))]
    /\ UNCHANGED << features, providedServiceFactories, defaultApiFactories,
                    discovered, startPromise, serviceHolder, extensionPoints,
                    pluginInits, moduleInits, allPluginIds, pc, rootIdx,
                    pluginTask, moduleTask, pluginInitFunc, pluginLifecycle, thrown, exitHandlers, exitVars,
                    errorHandlers, nodeEnv >>

\* the root shutdown() settles: hook errors are logged, not thrown
StopDone(i) ==
    /\ stops[i].phase = "shutdown"
    /\ rootLifecycle' = [rootLifecycle EXCEPT !.shutdown = "Done"]
    /\ stops' = [stops EXCEPT ![i] = StopState("resolved", NoError)]
    /\ UNCHANGED << features, providedServiceFactories, defaultApiFactories,
                    discovered, startPromise, thrown, exitHandlers, exitVars >>
    /\ UNCHANGED startVars

(***************************************************************************)
(* The initializer after construction, and its steps.                      *)
(***************************************************************************)
(***************************************************************************)
(* The exit handler of start(), and the end of the process.                *)
(***************************************************************************)
\* variant: the exit handler removes itself from the event it was called for
ExitHandlerRemovesOne(event) == {event}

\* the events the exit handler removes itself from when it is called
ExitHandlerRemoves(event) == ExitEvents

\* The process emits event and the exit handler listens to it: the handler
\* removes itself and calls stop(), which runs up to its first await as call
\* i of stop().
ExitHandler(event, i) ==
    /\ event \in exitListeners
    /\ exitListeners' = exitListeners \ ExitHandlerRemoves(event)
    /\ stops[i].phase = "idle"
    /\ i > 1 => stops[i - 1].phase # "idle"
    /\ stops' = [stops EXCEPT
                    ![i] = IF ~Started THEN StopState("returned", NoError)
                           ELSE StopState("awaitStart", NoError)]
    /\ exitStops' = exitStops \cup {i}
    /\ thrown' = NoError
    /\ UNCHANGED << features, providedServiceFactories, defaultApiFactories,
                    discovered, startPromise, rootLifecycle, exitHandlers,
                    exitCode >>
    /\ UNCHANGED startVars

\* the stop() of the exit handler has settled: process.exit(0) when it
\* returned, process.exit(1) when it threw
ExitProcess(i) ==
    /\ i \in exitStops
    /\ stops[i].phase \in {"returned", "resolved", "rejected"}
    /\ exitCode' = Append(exitCode, IF stops[i].phase = "rejected" THEN 1 ELSE 0)
    /\ UNCHANGED << features, providedServiceFactories, defaultApiFactories,
                    discovered, startPromise, rootLifecycle, stops, thrown,
                    exitHandlers, exitListeners, exitStops >>
    /\ UNCHANGED startVars

\* the process runs until process.exit() is called
Alive == exitCode = <<>>

PluginIds == {"A", "B"}

ModuleIds == {"m1", "m2", "m3", "c1", "c2"}

Init ==
    /\ features = <<>>
    /\ providedServiceFactories = <<>>
    /\ \/ /\ defaultApiFactories \in {StandardFactories, BrokenFactories}
          /\ discovered = <<>>
       \/ /\ defaultApiFactories = Append(StandardFactories, DiscoveryFactory)
          /\ discovered \in SeqsUpTo(Discoverable, MaxDiscovered) \ { <<>> }
    /\ startPromise = Promise("none", NoError)
    /\ serviceHolder = [created |-> FALSE, factories |-> <<>>]
    /\ implementations = {}
    /\ extensionPoints = Empty
    /\ pluginInits = Empty
    /\ moduleInits = Empty
    /\ allPluginIds = <<>>
    /\ pc = "idle"
    /\ rootIdx = 1
    /\ pluginTask = Empty
    /\ moduleTask = Empty
    /\ pluginInitFunc = Empty
    /\ pluginLifecycle = Empty
    /\ rootLifecycle = [startup |-> "Idle", shutdown |-> "Idle",
                        startupCalls |-> 0, shutdownCalls |-> 0]
    /\ stops = [i \in 1..MaxStops |-> StopState("idle", NoError)]
    /\ thrown = NoError
    /\ exitHandlers = 0
    /\ exitListeners = {}
    /\ exitStops = {}
    /\ exitCode = <<>>
    /\ errorHandlers = 0
    /\ nodeEnv = "unread"

Next ==
    \/ Alive /\ \E f \in FeatureNames : Add(f)
    \/ Alive /\ Start
    \/ Alive /\ Discover
    \/ Alive /\ InitRootService
    \/ Alive /\ Index
    \/ \E p \in PluginIds, m \in ModuleIds :
          Alive /\ << p, m >> \in DOMAIN moduleTask /\ ModuleVisit(p, m)
    \/ \E p \in PluginIds, m \in ModuleIds, ok \in BOOLEAN :
          Alive /\ << p, m >> \in DOMAIN moduleTask /\ ModuleInitDone(p, m, ok)
    \/ Alive /\ \E p \in DOMAIN pluginTask : PluginInit(p)
    \/ Alive /\ \E p \in DOMAIN pluginTask, ok \in BOOLEAN : PluginInitDone(p, ok)
    \/ Alive /\ \E p \in DOMAIN pluginTask : PluginLifecycleStartup(p)
    \/ Alive /\ \E p \in DOMAIN pluginTask, ok \in BOOLEAN : PluginStartupDone(p, ok)
    \/ Alive /\ RootStartup
    \/ Alive /\ \E ok \in BOOLEAN, env \in {"test", "production"} :
                   RootStartupDone(ok, env)
    \/ Alive /\ \E i \in 1..MaxStops : StopCall(i)
    \/ Alive /\ \E i \in 1..MaxStops : StopShutdown(i)
    \/ Alive /\ \E i \in 1..MaxStops : StopDone(i)

\* the initializer in a process to which none of the exit events is delivered
Spec == Init /\ [][Next]_vars

\* The steps in a process to which the exit events are delivered as well.
\* The stop() the exit handler calls does what any call of stop() does, so
\* without the end of the process every behaviour of SpecExit is one of Spec
\* as far as the variables other than exitVars go.
NextExit ==
    \/ Next
    \/ Alive /\ \E event \in ExitEvents, i \in 1..MaxStops : ExitHandler(event, i)
    \/ Alive /\ \E i \in 1..MaxStops : ExitProcess(i)

SpecExit == Init /\ [][NextExit]_vars

\* a step of #doStart or of a task it has started: an awaited operation
\* completes and the code after the await runs
StartStep ==
    \/ Discover
    \/ InitRootService
    \/ Index
    \/ \E p \in PluginIds, m \in ModuleIds :
          << p, m >> \in DOMAIN moduleTask /\ ModuleVisit(p, m)
    \/ \E p \in PluginIds, m \in ModuleIds, ok \in BOOLEAN :
          << p, m >> \in DOMAIN moduleTask /\ ModuleInitDone(p, m, ok)
    \/ \E p \in DOMAIN pluginTask : PluginInit(p)
    \/ \E p \in DOMAIN pluginTask, ok \in BOOLEAN : PluginInitDone(p, ok)
    \/ \E p \in DOMAIN pluginTask : PluginLifecycleStartup(p)
    \/ \E p \in DOMAIN pluginTask, ok \in BOOLEAN : PluginStartupDone(p, ok)
    \/ RootStartup
    \/ \E ok \in BOOLEAN, env \in {"test", "production"} : RootStartupDone(ok, env)

\* The initializer when every awaited operation of the start terminates:
\* the event loop runs the continuation of an operation that has settled.
SpecLive == Init /\ [][Next]_vars /\ WF_vars(StartStep)

(***************************************************************************)
(* Properties.                                                             *)
(***************************************************************************)
ModuleKeys == DOMAIN moduleInits

ModulesOf(p) == { k \in ModuleKeys : k[1] = p }

\* the init.func of module k has been called
ModuleInvoked(k) == moduleTask[k] \in {"running", "done", "initFailed"}

\* a feature the classification rules accept, given the overrides so far
WellFormed(f) ==
    /\ Catalog[f].type = FeatureType
    /\ \/ /\ Catalog[f].service # ""
          /\ Catalog[f].service # "pluginMetadata"
          /\ \A i \in 1..Len(providedServiceFactories) :
                Catalog[providedServiceFactories[i]].service # Catalog[f].service
       \/ /\ Catalog[f].service = ""
          /\ Catalog[f].hasRegistrations
          /\ Catalog[f].version = "v1"

\* C1: once start() has been called, in flight or settled, every add() throws
\* AlreadyStarted and leaves the feature list and the override list as they
\* are; before start() has been called, add() is never refused as already
\* started and a feature the classification rules accept is appended to its
\* list.
C1_AddOnlyBeforeStart ==
    /\ [](\A f \in FeatureNames :
            /\ Started => AddError(f) = Err("AlreadyStarted", <<"add">>)
            /\ ~Started => AddError(f).kind # "AlreadyStarted"
            /\ ~Started /\ WellFormed(f) => AddError(f) = NoError)
    /\ [][\A f \in FeatureNames :
            Add(f) =>
              /\ Started =>
                    /\ thrown' = Err("AlreadyStarted", <<"add">>)
                    /\ UNCHANGED << features, providedServiceFactories >>
              /\ ~Started /\ WellFormed(f) =>
                    /\ thrown' = NoError
                    /\ \/ features' = Append(features, f)
                             /\ UNCHANGED providedServiceFactories
                       \/ providedServiceFactories' =
                                Append(providedServiceFactories, f)
                             /\ UNCHANGED features]_vars

\* add() was refused after a start that failed, with features added before it
C1_Witness ==
    /\ startPromise.state = "rejected"
    /\ thrown = Err("AlreadyStarted", <<"add">>)
    /\ features # <<>>

\* C2: start() runs the initialization at most once: a second call, whatever
\* the state of the first, throws AlreadyStarted, changes nothing, creates no
\* second registry and registers no exit handler again.
C2_StartOnce ==
    /\ [](exitHandlers <= 1)
    /\ [](Started => StartError = Err("AlreadyStarted", <<"start">>))
    /\ [][Started /\ Start =>
            /\ thrown' = Err("AlreadyStarted", <<"start">>)
            /\ UNCHANGED << features, providedServiceFactories, startPromise,
                            stops, exitHandlers, rootLifecycle >>
            /\ UNCHANGED startVars]_vars
    /\ [][Started => /\ serviceHolder' = serviceHolder
                     /\ exitHandlers' <= exitHandlers
                     /\ pc' # "discovery" \/ pc = "discovery"]_vars

\* start() was refused after the first start resolved
C2_Witness ==
    /\ startPromise.state = "resolved"
    /\ thrown = Err("AlreadyStarted", <<"start">>)
    /\ exitHandlers = 1

\* the first call of stop() made on a started initializer
FirstStop(i) ==
    /\ stops[i].phase \notin {"idle", "returned"}
    /\ \A j \in 1..(i - 1) : stops[j].phase = "returned"

StopSettled(i) == stops[i].phase \in {"resolved", "rejected"}

\* C3: after a failed start(), whatever made it fail, a stop() resolves and
\* has called the root lifecycle shutdown().
C3_StopAfterFailedStart ==
    \A i \in 1..MaxStops :
        startPromise.state = "rejected" /\ FirstStop(i) /\ StopSettled(i) =>
            /\ stops[i].phase = "resolved"
            /\ rootLifecycle.shutdown = "Done"

\* C4: however often stop() is called, the root lifecycle shutdown() is
\* called at most once and no stop() fails because an earlier one shut down.
C4_StopIdempotent ==
    /\ rootLifecycle.shutdownCalls <= 1
    /\ \A i \in 1..MaxStops :
          stops[i].error.kind # "LifecycleAlreadyInvoked"

\* module a registers an extension point that module b has among its deps
ProvidesFor(a, b) == moduleInits[a].provides \cap moduleInits[b].consumes # {}

\* C5: within a plugin, the init.func of a module that registers an
\* extension point is not called before the init.func of every module that
\* has the extension point among its deps has completed.
C5_ProvidersAfterConsumers ==
    \A a \in ModuleKeys, b \in ModuleKeys :
        a[1] = b[1] /\ a # b /\ ProvidesFor(a, b) /\ ModuleInvoked(a)
            => moduleTask[b] = "done"

\* a module with two consumers of its extension point runs after both
C5_Witness ==
    \E a \in ModuleKeys, b \in ModuleKeys, c \in ModuleKeys :
        /\ a[1] = b[1] /\ a[1] = c[1] /\ a # b /\ a # c /\ b # c
        /\ ProvidesFor(a, b) /\ ProvidesFor(a, c)
        /\ moduleTask[a] = "running"
        /\ moduleTask[b] = "done" /\ moduleTask[c] = "done"

\* C6: a plugin's init.func is called only after every module of the plugin
\* has completed, and the plugin lifecycle startup() only after that and
\* after the plugin's init.func, when there is one, has completed; so after a
\* failed module or plugin init the plugin's startup() is never called.
C6_ModulesThenPluginThenLifecycle ==
    \A p \in DOMAIN pluginTask :
        /\ p \in DOMAIN pluginInitFunc /\ pluginInitFunc[p] # "idle"
              => \A k \in ModulesOf(p) : moduleTask[k] = "done"
        /\ pluginLifecycle[p] # "Idle"
              => /\ \A k \in ModulesOf(p) : moduleTask[k] = "done"
                 /\ p \in DOMAIN pluginInitFunc => pluginInitFunc[p] = "done"
        /\ \/ \E k \in ModulesOf(p) : moduleTask[k] \in {"depsFailed", "initFailed"}
           \/ p \in DOMAIN pluginInitFunc /\ pluginInitFunc[p] = "failed"
              => pluginLifecycle[p] = "Idle"

\* the lifecycle of a plugin with modules and an init.func has started up
C6_Witness ==
    \E p \in DOMAIN pluginTask :
        /\ ModulesOf(p) # {}
        /\ p \in DOMAIN pluginInitFunc
        /\ pluginLifecycle[p] = "Done"

\* a module init.func, a plugin init.func or a plugin startup() has begun
InitializationBegun ==
    \/ \E k \in ModuleKeys : moduleTask[k] # "waiting"
    \/ \E p \in DOMAIN pluginInitFunc : pluginInitFunc[p] # "idle"
    \/ \E p \in DOMAIN pluginLifecycle : pluginLifecycle[p] # "Idle"
    \/ \E p \in DOMAIN pluginTask : pluginTask[p] \notin {"modules", "plugin", "failed"}

RootScoped ==
    { id \in Range(ServiceRefs(serviceHolder.factories)) :
        FactoryFor(serviceHolder.factories, id).scope = "root" }

\* C7: every root scoped service of the registry has been instantiated in
\* scope root before a module init.func, a plugin init.func or a plugin
\* startup() begins; when the factory of one throws none of them begins.
C7_RootServicesFirst ==
    /\ InitializationBegun =>
          \A id \in RootScoped : << id, "root" >> \in implementations
    /\ (\E id \in RootScoped : FactoryFor(serviceHolder.factories, id).throws)
          => ~InitializationBegun /\ DOMAIN pluginTask = {}

\* a module runs with the three root services of a discovery setup in place
C7_Witness ==
    /\ \E k \in ModuleKeys : moduleTask[k] = "running"
    /\ Cardinality(RootScoped) = 3
    /\ \A id \in RootScoped : << id, "root" >> \in implementations

\* C8: the root lifecycle startup() is called once at most, only after the
\* plugin lifecycle of every plugin id of pluginInits and moduleInits has
\* started up, never after a plugin failed; start() resolves only after it.
C8_RootStartupLast ==
    /\ rootLifecycle.startupCalls <= 1
    /\ rootLifecycle.startup # "Idle" =>
          /\ rootLifecycle.startupCalls = 1
          /\ \A p \in DOMAIN pluginInits \cup { k[1] : k \in ModuleKeys } :
                p \in DOMAIN pluginLifecycle /\ pluginLifecycle[p] = "Done"
          /\ \A p \in DOMAIN pluginTask : pluginTask[p] = "done"
    /\ startPromise.state = "resolved" => rootLifecycle.startup = "Done"

\* start() has resolved for a plugin and the modules of another plugin
C8_Witness ==
    /\ startPromise.state = "resolved"
    /\ Cardinality(DOMAIN pluginTask) = 2
    /\ ModuleKeys # {}

\* the uses << k, Q >> of an extension point across plugins: module k of a
\* plugin P has among its deps an extension point registered for Q, Q # P
CrossPluginUses ==
    { u \in ModuleKeys \X PluginIds :
        \E ref \in moduleInits[u[1]].consumes :
            /\ ref \in DOMAIN extensionPoints
            /\ extensionPoints[ref] = u[2]
            /\ u[2] # u[1][1] }

OwnershipViolation(u) ==
    Err("ExtensionPointOwnershipViolation", << u[2], u[1][1] >>)

\* C9 as stated: with a module that uses an extension point of another
\* plugin, a start() that fails fails with ExtensionPointOwnershipViolation.
C9_Original ==
    CrossPluginUses # {} /\ startPromise.state = "rejected"
        => startPromise.error.kind = "ExtensionPointOwnershipViolation"

\* C9: with a module m of plugin P that uses an extension point registered
\* for another plugin Q, start() never resolves and m's init.func is never
\* called; the resolution of m's deps throws
\* ExtensionPointOwnershipViolation naming Q and P, and start() rejects with
\* that error when nothing has made it fail before.
C9_NoCrossPluginLeak ==
    /\ [](CrossPluginUses # {} => startPromise.state # "resolved")
    /\ [](\A u \in CrossPluginUses : ~ModuleInvoked(u[1]))
    /\ [][\A u \in CrossPluginUses :
            moduleTask[u[1]] = "waiting" /\ moduleTask'[u[1]] # "waiting" =>
                /\ moduleTask'[u[1]] = "depsFailed"
                /\ pluginTask'[u[1][1]] = "failed"
                /\ startPromise.state = "pending" =>
                      /\ startPromise'.state = "rejected"
                      /\ \E v \in CrossPluginUses :
                            /\ v[1] = u[1]
                            /\ startPromise'.error = OwnershipViolation(v)]_vars

\* start() was rejected because module m1 of plugin A asked for the extension
\* point of plugin B, whose own modules were being initialized
C9_Witness ==
    /\ << << "A", "m1" >>, "B" >> \in CrossPluginUses
    /\ moduleTask[<< "A", "m1" >>] = "depsFailed"
    /\ startPromise =
          Promise("rejected", Err("ExtensionPointOwnershipViolation", << "B", "A" >>))
    /\ \E k \in ModulesOf("B") : ModuleInvoked(k)

\* the modules of plugin p depend on each other in a circle
Cyclic(p) ==
    \E S \in SUBSET ModulesOf(p) :
        /\ S # {}
        /\ \A a \in S : \E b \in S : ProvidesFor(a, b)

\* path leads through modules of plugin p from one of them back to it
CyclePath(p, path) ==
    /\ Len(path) >= 2
    /\ path[1] = path[Len(path)]
    /\ \A i \in 1..Len(path) : << p, path[i] >> \in ModuleKeys
    /\ \A i \in 1..(Len(path) - 1) :
          ProvidesFor(<< p, path[i] >>, << p, path[i + 1] >>)

\* C10: when the modules of a plugin P depend on each other in a circle,
\* start() is rejected with CircularModuleDependency, which names a plugin
\* and a circle through its modules, and no module init.func of P is called,
\* nor P's init.func, nor P's lifecycle startup(): the traversal of P's
\* modules is never entered.
C10_CycleRejected ==
    \A p \in DOMAIN pluginTask :
        Cyclic(p) =>
            /\ startPromise.state = "rejected"
            /\ startPromise.error.kind = "CircularModuleDependency"
            /\ Cyclic(Head(startPromise.error.detail))
            /\ CyclePath(Head(startPromise.error.detail),
                         Tail(startPromise.error.detail))
            /\ pluginTask[p] = "failed"
            /\ \A k \in ModulesOf(p) : moduleTask[k] = "waiting"
            /\ p \in DOMAIN pluginInitFunc => pluginInitFunc[p] = "idle"
            /\ pluginLifecycle[p] = "Idle"

\* the circle c1 -> c2 -> c1 of plugin B was reported, plugin B is
\* registered, and stop() has run since
C10_Witness ==
    /\ startPromise =
          Promise("rejected",
                  Err("CircularModuleDependency", << "B", "c1", "c2", "c1" >>))
    /\ "B" \in DOMAIN pluginInitFunc
    /\ \E i \in 1..MaxStops : stops[i].phase = "resolved"

\* the plugin ids that have modules but no plugin registration
ModuleOnlyPlugins == { k[1] : k \in ModuleKeys } \ DOMAIN pluginInits

\* C11: the modules registered for a plugin id that has no plugin feature
\* are initialized all the same: the plugin id gets its initialization, no
\* plugin init.func is called for it, the step from the modules to the
\* plugin lifecycle never fails for the lack of a plugin, the lifecycle
\* startup() of the plugin id is called once at most, and once start() has
\* resolved every such module has run and the startup() has completed.
C11_ModulesWithoutPlugin ==
    /\ [](\A p \in ModuleOnlyPlugins :
            /\ p \in DOMAIN pluginTask
            /\ p \in DOMAIN pluginLifecycle
            /\ p \notin DOMAIN pluginInitFunc
            /\ startPromise.state = "resolved" =>
                  /\ \A k \in ModulesOf(p) : moduleTask[k] = "done"
                  /\ pluginLifecycle[p] = "Done")
    /\ [][\A p \in ModuleOnlyPlugins :
            p \in DOMAIN pluginTask =>
              /\ pluginTask[p] = "plugin" /\ pluginTask'[p] # "plugin"
                    => pluginTask'[p] = "lifecycle" /\ UNCHANGED startPromise
              /\ pluginLifecycle[p] # "Idle" => pluginLifecycle'[p] # "Idle"
              /\ pluginLifecycle'[p] = "Running" /\ pluginLifecycle[p] # "Running"
                    => pluginLifecycle[p] = "Idle"]_vars

\* start() has resolved with the three modules of plugin B and no plugin B
C11_Witness ==
    /\ startPromise.state = "resolved"
    /\ ModuleOnlyPlugins = {"B"}
    /\ \A k \in ModulesOf("B") : moduleTask[k] = "done"
    /\ Cardinality(ModulesOf("B")) = 3
    /\ pluginLifecycle["B"] = "Done"

\* the service ids of the provided service factories, in the order of the list
ProvidedIds ==
    [i \in 1..Len(providedServiceFactories) |->
        Catalog[providedServiceFactories[i]].service]

\* C12: the list of provided service factories never holds two factories for
\* one service id; before start(), an add() of a service factory whose
\* service id is already in the list throws DuplicateServiceImpl naming the
\* id and leaves the list (and the feature list) as it is.
C12_UniqueOverrides ==
    /\ [](\A i, j \in 1..Len(ProvidedIds) : i # j => ProvidedIds[i] # ProvidedIds[j])
    /\ [](\A f \in FeatureNames :
            /\ ~Started
            /\ Catalog[f].type = FeatureType
            /\ Catalog[f].service \in Range(ProvidedIds)
            => AddError(f) = Err("DuplicateServiceImpl", << Catalog[f].service >>))
    /\ [][\A f \in FeatureNames :
            /\ ~Started
            /\ Catalog[f].type = FeatureType
            /\ Catalog[f].service \in Range(ProvidedIds)
            /\ Add(f)
            => /\ thrown' = Err("DuplicateServiceImpl", << Catalog[f].service >>)
               /\ UNCHANGED << providedServiceFactories, features >>]_vars

\* a second factory for service foo was refused; the first is still the
\* only override
C12_Witness ==
    /\ ~Started
    /\ thrown = Err("DuplicateServiceImpl", <<"foo">>)
    /\ providedServiceFactories = <<"Foo">>

\* the positions in regs of the registrations that register the extension
\* point id e
RegisteredAt(regs, e) ==
    { i \in 1..Len(regs) :
        regs[i].type \in {"plugin", "module"} /\ e \in Range(regs[i].extensionPoints) }

\* the positions in regs at which an extension point id is registered that
\* an earlier registration, or the same one, has registered already
DuplicateExtensionPointAt(regs) ==
    { i \in 1..Len(regs) :
        /\ regs[i].type \in {"plugin", "module"}
        /\ \/ \E e \in Range(regs[i].extensionPoints) :
                 \E j \in RegisteredAt(regs, e) : j < i
           \/ \E a, b \in 1..Len(regs[i].extensionPoints) :
                 a # b /\ regs[i].extensionPoints[a] = regs[i].extensionPoints[b] }

\* the positions in regs of a plugin or module registered before
DuplicateRegistrationAt(regs) ==
    { i \in 1..Len(regs) :
        \E j \in 1..(i - 1) :
            /\ regs[j].pluginId = regs[i].pluginId
            /\ (regs[j].type = "plugin") = (regs[i].type = "plugin")
            /\ regs[i].type = "plugin" \/ regs[j].moduleId = regs[i].moduleId }

\* the step of #doStart that indexes the features
IndexingStep == pc = "rootServices" /\ RootServicesDone /\ pc' # "rootServices"

MissingRefs(deps) ==
    { ref \in Range(deps) :
        /\ ref \notin DOMAIN extensionPoints
        /\ FactoryFor(serviceHolder.factories, ref) = NoFactory }

\* the loop over deps is left by a throw: an extension point of another
\* plugin, or a service the registry fails to build
LoopThrows(deps, pluginId) ==
    \E ref \in Range(deps) :
        IF ref \in DOMAIN extensionPoints
        THEN extensionPoints[ref] # pluginId
        ELSE Get(serviceHolder.factories, implementations, ref, pluginId).error
                 # NoError

\* error is the one error that reports every ref of missing, each once
ReportsAll(error, missing) ==
    /\ error.kind = "UnresolvedDependencies"
    /\ Range(error.detail) = missing
    /\ Len(error.detail) = Cardinality(missing)

ModuleFailed(k) == moduleTask[k] \in {"depsFailed", "initFailed"}

\* C15 as stated: when the initialization of a module fails, in the
\* resolution of its deps or in its init.func, while the start is in
\* flight, start() rejects with ModuleStartupFailed for that module.
C15_Original ==
    [][\A k \in ModuleKeys :
          ~ModuleFailed(k) /\ ModuleFailed(k)' /\ startPromise.state = "pending"
             => /\ startPromise'.state = "rejected"
                /\ startPromise'.error.kind = "ModuleStartupFailed"
                /\ startPromise'.error.detail[1] = k[2]
                /\ startPromise'.error.detail[2] = k[1]]_vars

\* C15: the rejection of a module's init.func is reported as
\* ModuleStartupFailed with the module id, the plugin id and the cause, and
\* start() rejects with it when nothing has made it fail before; a failure
\* of the resolution of the module's deps is reported as the error of the
\* resolution itself, not as ModuleStartupFailed; and start() is never
\* rejected with ModuleStartupFailed for a module whose init.func did not
\* reject.
C15_ModuleFailureReported ==
    /\ [][\A k \in ModuleKeys :
            moduleTask[k] = "running" /\ moduleTask'[k] = "initFailed"
               /\ startPromise.state = "pending"
               => startPromise' =
                     Promise("rejected",
                             Err("ModuleStartupFailed", << k[2], k[1], "boom" >>))]_vars
    /\ [][\A k \in ModuleKeys :
            moduleTask[k] = "waiting" /\ moduleTask'[k] = "depsFailed"
               /\ startPromise.state = "pending"
               => /\ startPromise'.state = "rejected"
                  /\ startPromise'.error = GetInitDeps(moduleInits[k].deps, k[1]).error
                  /\ startPromise'.error.kind # "ModuleStartupFailed"]_vars
    /\ [](startPromise.error.kind = "ModuleStartupFailed" =>
            /\ startPromise.state = "rejected"
            /\ << startPromise.error.detail[2], startPromise.error.detail[1] >>
                  \in ModuleKeys
            /\ moduleTask[<< startPromise.error.detail[2],
                             startPromise.error.detail[1] >>] = "initFailed")

\* start() was rejected because the init.func of module m2 of plugin B
\* rejected, after module m3 had completed
C15_Witness ==
    /\ startPromise =
          Promise("rejected", Err("ModuleStartupFailed", << "m2", "B", "boom" >>))
    /\ moduleTask[<< "B", "m2" >>] = "initFailed"
    /\ moduleTask[<< "B", "m3" >>] = "done"

\* C16: the exit handler listens to SIGTERM, SIGINT and beforeExit, and the
\* handlers of unhandled errors are registered, only once start() has
\* resolved and only outside test mode.
C16_HooksOnlyWhenRunning ==
    exitListeners # {} \/ errorHandlers > 0
        => startPromise.state = "resolved" /\ nodeEnv # "test"

\* the call of stop() made by the exit handler has ended as the exit code c
\* says: 0 for a stop() that returned, 1 for one that threw
ExitedAfterStop(c) ==
    \E i \in exitStops :
        \/ c = 0 /\ stops[i].phase \in {"returned", "resolved"}
        \/ c = 1 /\ stops[i].phase = "rejected"

\* C17: when SIGTERM, SIGINT or beforeExit reaches the exit handler, the
\* handler stops listening to all three events and calls stop(); it is
\* called once at most, so it calls stop() once at most; process.exit() is
\* called once at most, only by the handler and only after its stop() has
\* settled, with code 0 when that stop() resolved and 1 when it rejected.
C17_ExitAfterStop ==
    /\ [](Cardinality(exitStops) <= 1)
    /\ [](exitStops # {} => exitListeners = {})
    /\ [](Len(exitCode) <= 1)
    /\ [](\A n \in 1..Len(exitCode) : ExitedAfterStop(exitCode[n]))
    /\ [][exitListeners' # exitListeners /\ exitListeners # {} =>
            /\ exitListeners' = {}
            /\ \E i \in 1..MaxStops :
                  /\ exitStops' = exitStops \cup {i}
                  /\ i \notin exitStops
                  /\ stops[i].phase = "idle"
                  /\ stops'[i].phase = "awaitStart"
            /\ UNCHANGED << exitCode, rootLifecycle, startPromise >>]_vars
    /\ [][exitStops' # exitStops =>
            exitListeners = ExitEvents /\ exitListeners' = {}]_vars
    /\ [][exitCode' # exitCode =>
            /\ exitCode = <<>>
            /\ Len(exitCode') = 1
            /\ ExitedAfterStop(exitCode'[1])
            /\ UNCHANGED << stops, rootLifecycle, startPromise >>]_vars

\* SIGTERM or the like came while the start was in flight or after start()
\* had resolved; the handler's stop() shut the root lifecycle down and the
\* process exited with code 0
C17_Witness ==
    /\ exitCode = << 0 >>
    /\ startPromise.state = "resolved"
    /\ rootLifecycle.shutdown = "Done"
    /\ exitListeners = {}
    /\ \E i \in exitStops : stops[i].phase = "resolved"

\* the first n features of the discovery service
Discovered(n) == SubSeq(discovered, 1, n)

\* the service factories among the features fs, and the other features
FactoriesOf(fs) == SelectSeq(fs, LAMBDA f : Catalog[f].service # "")

FeaturesOf(fs) == SelectSeq(fs, LAMBDA f : Catalog[f].service = "")

\* the rule of add() that the n-th feature of the discovery service
\* violates, "none" when it is accepted: the type tag, the pluginMetadata
\* guard, the service id overridden already (by add() or by an earlier
\* discovered feature), the version, the shape
DiscoveredViolates(n) ==
    LET feature == Catalog[discovered[n]] IN
    IF feature.type # FeatureType THEN "MalformedFeature"
    ELSE IF feature.service = "pluginMetadata" THEN "ForbiddenServiceOverride"
    ELSE IF /\ feature.service # ""
            /\ feature.service \in
                  Range(ProvidedIds)
                  \cup { Catalog[discovered[j]].service : j \in 1..(n - 1) }
         THEN "DuplicateServiceImpl"
    ELSE IF feature.service # "" THEN "none"
    ELSE IF ~feature.hasRegistrations THEN "MalformedFeature"
    ELSE IF feature.version # "v1" THEN "UnsupportedFeatureVersion"
    ELSE "none"

\* the errors of the rules of add()
RuleErrors ==
    {"MalformedFeature", "ForbiddenServiceOverride", "DuplicateServiceImpl",
     "UnsupportedFeatureVersion"}

\* the step of #doStart that asks the discovery service and adds its features
DiscoveryStep == pc = "discovery" /\ pc' # "discovery" /\ discovered # <<>>

\* the indexing has passed
Indexed == pc \in {"plugins", "rootStartup", "done"} \/ DOMAIN pluginTask # {}

\* C18: the features of the discovery service are added in their order
\* under the rules of add(), before the root services and the indexing: when
\* all obey the rules the plugin and module features are appended to the
\* feature list and the service factories to the override list, and the
\* start goes on; they are then indexed like the features added with add()
\* and, when start() resolves, initialized.  The first feature that violates
\* a rule rejects start() with the error of that rule, after the features
\* before it were added, and no init.func, indexing or lifecycle startup
\* ever runs.
C18_DiscoveredFeaturesAdded ==
    /\ [][DiscoveryStep =>
            LET bad == { n \in 1..Len(discovered) : DiscoveredViolates(n) # "none" }
                upto == IF bad = {} THEN Len(discovered)
                        ELSE (CHOOSE n \in bad : \A m \in bad : n <= m) - 1
            IN /\ features' = features \o FeaturesOf(Discovered(upto))
               /\ providedServiceFactories' =
                     providedServiceFactories \o FactoriesOf(Discovered(upto))
               /\ IF bad = {}
                  THEN pc' = "rootServices" /\ UNCHANGED startPromise
                  ELSE /\ startPromise'.state = "rejected"
                       /\ startPromise'.error.kind = DiscoveredViolates(upto + 1)
                       /\ pc' = "failed"
               /\ UNCHANGED << extensionPoints, pluginTask, moduleTask, rootIdx >>]_vars
    /\ [](startPromise.error.kind \in RuleErrors =>
            /\ startPromise.state = "rejected"
            /\ \E n \in 1..Len(discovered) : DiscoveredViolates(n) # "none"
            /\ DOMAIN extensionPoints = {} /\ DOMAIN pluginTask = {}
            /\ DOMAIN moduleTask = {} /\ DOMAIN pluginInitFunc = {}
            /\ DOMAIN pluginLifecycle = {} /\ rootLifecycle.startupCalls = 0)
    /\ [](Indexed =>
            \A n \in 1..Len(discovered) :
                /\ discovered[n] \in Range(features) \cup Range(providedServiceFactories)
                /\ \A i \in 1..Len(Catalog[discovered[n]].regs) :
                      LET r == Catalog[discovered[n]].regs[i] IN
                      /\ r.type = "plugin" =>
                            /\ r.pluginId \in DOMAIN pluginInits
                            /\ r.pluginId \in DOMAIN pluginTask
                            /\ startPromise.state = "resolved"
                                  => pluginInitFunc[r.pluginId] = "done"
                      /\ r.type = "module" =>
                            /\ << r.pluginId, r.moduleId >> \in ModuleKeys
                            /\ startPromise.state = "resolved"
                                  => moduleTask[<< r.pluginId, r.moduleId >>] = "done"
                      /\ \A e \in Range(r.extensionPoints) :
                            e \in DOMAIN extensionPoints)

\* start() has resolved with plugin A, which the discovery service returned,
\* and plugin B, which was added with add(), both initialized
C18_Witness ==
    /\ discovered = << "PlugA" >>
    /\ features = << "PlugB", "PlugA" >>
    /\ startPromise.state = "resolved"
    /\ pluginInitFunc["A"] = "done" /\ pluginInitFunc["B"] = "done"

\* a call of stop() has returned at once because start() had not been called
StoppedEarly == \E i \in 1..MaxStops : stops[i].phase = "returned"

\* C19: a stop() called before start() returns at once (its promise
\* resolves) and changes nothing: no registry is created, the root lifecycle
\* shutdown() is not called, the start promise stays unset and the lists stay
\* as they are; that call never does anything later; and afterwards add()
\* still accepts a feature that obeys the rules and start() still starts.
C19_StopBeforeStartNoOp ==
    /\ [][\A i \in 1..MaxStops :
            stops[i].phase = "idle" /\ stops'[i].phase # "idle" /\ ~Started =>
               /\ stops'[i] = StopState("returned", NoError)
               /\ thrown' = NoError
               /\ UNCHANGED << features, providedServiceFactories,
                               defaultApiFactories, discovered, startPromise,
                               rootLifecycle, exitHandlers, exitVars >>
               /\ UNCHANGED startVars]_vars
    /\ [][\A i \in 1..MaxStops :
            stops[i].phase = "returned" => stops'[i] = stops[i]]_vars
    /\ [](StoppedEarly /\ ~Started =>
            /\ ~serviceHolder.created
            /\ rootLifecycle.shutdownCalls = 0 /\ rootLifecycle.shutdown = "Idle"
            /\ pc = "idle"
            /\ StartError = NoError
            /\ \A f \in FeatureNames : WellFormed(f) => AddError(f) = NoError)
    /\ [][StoppedEarly /\ ~Started =>
            /\ Start => /\ thrown' = NoError
                        /\ startPromise'.state = "pending"
                        /\ serviceHolder'.created
            /\ \A f \in FeatureNames :
                  Add(f) /\ WellFormed(f) =>
                     /\ thrown' = NoError
                     /\ Len(features') + Len(providedServiceFactories')
                           = Len(features) + Len(providedServiceFactories) + 1]_vars

\* stop() was called before start(); then a plugin was added and start()
\* resolved, with no shutdown() called
C19_Witness ==
    /\ stops[1].phase = "returned"
    /\ startPromise.state = "resolved"
    /\ features # <<>>
    /\ rootLifecycle.shutdownCalls = 0

\* call i of stop() has gone past its await of the start promise
PastAwait(i) == stops[i].phase \in {"shutdown", "resolved", "rejected"}

\* C20: a stop() called while the start is in flight waits: it changes
\* nothing of the start, and no stop() goes past its await, and the root
\* lifecycle shutdown() is not called, before the start promise has
\* resolved or rejected; after a start that resolved, shutdown() is called
\* only after the root startup() has completed.
C20_StopAwaitsStart ==
    /\ [](rootLifecycle.shutdownCalls > 0 \/ rootLifecycle.shutdown # "Idle"
            => startPromise.state \in {"resolved", "rejected"})
    /\ [](\A i \in 1..MaxStops :
            PastAwait(i) => startPromise.state \in {"resolved", "rejected"})
    /\ [](startPromise.state = "resolved" /\ rootLifecycle.shutdownCalls > 0
            => rootLifecycle.startup = "Done" /\ rootLifecycle.startupCalls = 1)
    /\ [][startPromise.state = "pending" /\ stops' # stops =>
            /\ \E i \in 1..MaxStops :
                  /\ stops[i].phase = "idle"
                  /\ stops' = [stops EXCEPT ![i] = StopState("awaitStart", NoError)]
            /\ UNCHANGED << startPromise, rootLifecycle >>
            /\ UNCHANGED startVars]_vars
    /\ [][rootLifecycle'.shutdownCalls # rootLifecycle.shutdownCalls =>
            /\ startPromise.state \in {"resolved", "rejected"}
            /\ startPromise.state = "resolved" => rootLifecycle.startup = "Done"
            /\ UNCHANGED startPromise
            /\ rootLifecycle'.startup = rootLifecycle.startup]_vars

\* every call of stop() waits for a start whose root startup() is running
C20_Witness ==
    /\ startPromise.state = "pending"
    /\ rootLifecycle.startup = "Running"
    /\ \A i \in 1..MaxStops : stops[i].phase = "awaitStart"
    /\ rootLifecycle.shutdownCalls = 0

\* C21: in one start() the initialization callback runs once per plugin id
\* (allPluginIds names no plugin id twice, also when the id has a plugin
\* feature and modules), and the init.func of a module, the init.func of a
\* plugin and the lifecycle startup() of a plugin id are each called once
\* at most: none is called again once it has been called.  When start() has
\* resolved every one of them has been called and has completed.
C21_InitializedOnce ==
    /\ [](\A i, j \in 1..Len(allPluginIds) : i # j => allPluginIds[i] # allPluginIds[j])
    /\ [](DOMAIN pluginTask # {} =>
            /\ DOMAIN pluginTask = Range(allPluginIds)
            /\ DOMAIN pluginLifecycle = Range(allPluginIds)
            /\ Range(allPluginIds) = DOMAIN pluginInits \cup { k[1] : k \in ModuleKeys }
            /\ DOMAIN moduleTask = ModuleKeys
            /\ DOMAIN pluginInitFunc = DOMAIN pluginInits)
    /\ [][\A k \in ModuleKeys :
            k \in DOMAIN moduleTask =>
              /\ moduleTask[k] # "waiting" => moduleTask'[k] # "waiting"
              /\ moduleTask'[k] = "running" /\ moduleTask[k] # "running"
                    => moduleTask[k] = "waiting"
              /\ moduleTask[k] \in {"done", "initFailed", "depsFailed"}
                    => moduleTask'[k] = moduleTask[k]]_vars
    /\ [][\A p \in DOMAIN pluginInitFunc :
              /\ pluginInitFunc[p] # "idle" => pluginInitFunc'[p] # "idle"
              /\ pluginInitFunc'[p] = "running" /\ pluginInitFunc[p] # "running"
                    => pluginInitFunc[p] = "idle"
              /\ pluginInitFunc[p] \in {"done", "failed"}
                    => pluginInitFunc'[p] = pluginInitFunc[p]]_vars
    /\ [][\A p \in DOMAIN pluginLifecycle :
              /\ pluginLifecycle[p] # "Idle" => pluginLifecycle'[p] # "Idle"
              /\ pluginLifecycle'[p] = "Running" /\ pluginLifecycle[p] # "Running"
                    => pluginLifecycle[p] = "Idle"
              /\ pluginLifecycle[p] \in {"Done", "Failed"}
                    => pluginLifecycle'[p] = pluginLifecycle[p]]_vars
    /\ [](startPromise.state = "resolved" =>
            /\ \A k \in ModuleKeys : moduleTask[k] = "done"
            /\ \A p \in DOMAIN pluginInits : pluginInitFunc[p] = "done"
            /\ \A p \in Range(allPluginIds) : pluginLifecycle[p] = "Done")

\* start() has resolved for plugin B, which has a plugin feature and three
\* modules and was initialized as one plugin id
C21_Witness ==
    /\ startPromise.state = "resolved"
    /\ allPluginIds = << "B" >>
    /\ "B" \in DOMAIN pluginInits
    /\ Cardinality(ModulesOf("B")) = 3
    /\ pluginInitFunc["B"] = "done"
    /\ pluginLifecycle["B"] = "Done"

\* the registrations the start will index: those of the features added with
\* add(), then those of the features of the discovery service
RegistrationsToCome == Registrations(features \o FeaturesOf(discovered))

\* the module registrations among regs depend on each other in a circle
CyclicRegistrations(regs) ==
    \E S \in SUBSET { i \in 1..Len(regs) : regs[i].type = "module" } :
        /\ S # {}
        /\ \A a \in S : \E b \in S :
              /\ regs[a].pluginId = regs[b].pluginId
              /\ Range(regs[a].extensionPoints) \cap Range(regs[b].deps) # {}

\* every ref of the deps of every registration of regs resolves: it is an
\* extension point registered for the same plugin, or it is no extension
\* point and the registry has a factory for it
DepsResolve(regs) ==
    \A i \in 1..Len(regs) : \A ref \in Range(regs[i].deps) :
        IF RegisteredAt(regs, ref) # {}
        THEN \A j \in RegisteredAt(regs, ref) : regs[j].pluginId = regs[i].pluginId
        ELSE \E n \in 1..Len(serviceHolder.factories) :
                serviceHolder.factories[n].id = ref

\* start() has just been called with a setup in which nothing is wrong: no
\* service factory throws, the lifecycle services are the standard ones,
\* the discovered features obey the rules of add(), no extension point,
\* plugin or module is registered twice, no modules depend on each other in
\* a circle, and all deps resolve
ValidStart ==
    /\ startPromise.state = "pending"
    /\ pc = "discovery"
    /\ \A n \in 1..Len(serviceHolder.factories) : ~serviceHolder.factories[n].throws
    /\ \A i \in 1..Len(ProvidedIds) : ProvidedIds[i] \notin {"rootLifecycle", "lifecycle"}
    /\ \A n \in 1..Len(discovered) : DiscoveredViolates(n) = "none"
    /\ DuplicateExtensionPointAt(RegistrationsToCome) = {}
    /\ DuplicateRegistrationAt(RegistrationsToCome) = {}
    /\ ~CyclicRegistrations(RegistrationsToCome)
    /\ DepsResolve(RegistrationsToCome)

\* an init.func or a startup hook of the start has failed
InitOrHookFailed ==
    \/ \E k \in DOMAIN moduleTask : moduleTask[k] = "initFailed"
    \/ \E p \in DOMAIN pluginInitFunc : pluginInitFunc[p] = "failed"
    \/ \E p \in DOMAIN pluginLifecycle : pluginLifecycle[p] = "Failed"
    \/ rootLifecycle.startup = "Failed"

\* C22: a start() of a setup in which nothing is wrong eventually resolves,
\* unless an init.func or a startup hook fails; so no module waits in the
\* traversal for ever.  A waiting module whose extension points no other
\* module of its plugin has among its deps is ready whatever has completed.
C22_StartResolves ==
    /\ ValidStart ~> (startPromise.state = "resolved" \/ InitOrHookFailed)
    /\ [](startPromise.state = "rejected" /\ ~InitOrHookFailed =>
            \/ \E n \in 1..Len(serviceHolder.factories) : serviceHolder.factories[n].throws
            \/ \E i \in 1..Len(ProvidedIds) : ProvidedIds[i] \in {"rootLifecycle", "lifecycle"}
            \/ startPromise.error.kind \in RuleErrors
            \/ DuplicateExtensionPointAt(Registrations(features)) # {}
            \/ DuplicateRegistrationAt(Registrations(features)) # {}
            \/ CyclicRegistrations(Registrations(features))
            \/ ~DepsResolve(Registrations(features)))
    /\ [](\A k \in ModuleKeys :
            (\A b \in ModulesOf(k[1]) : ~ProvidesFor(k, b)) =>
                NodeReady(ModuleNode(k[2], moduleInits[k]), PluginNodes(k[1]), {}))

\* start() has resolved with the modules of plugin B, among them m3, whose
\* extension point W no module has among its deps
C22_Witness ==
    /\ startPromise.state = "resolved"
    /\ << "B", "m3" >> \in ModuleKeys
    /\ moduleTask[<< "B", "m3" >>] = "done"
    /\ moduleInits[<< "B", "m3" >>].provides = {"W"}
    /\ \A b \in ModulesOf("B") : "W" \notin moduleInits[b].consumes

\* an init.func of a module or of a plugin, or a startup() of a plugin
\* lifecycle, has been called by the start and has not ended
InFlight ==
    \/ \E k \in DOMAIN moduleTask : moduleTask[k] = "running"
    \/ \E p \in DOMAIN pluginInitFunc : pluginInitFunc[p] = "running"
    \/ \E p \in DOMAIN pluginLifecycle : pluginLifecycle[p] = "Running"

\* the step is a stop() calling shutdown() of the root lifecycle
ShutdownInvoked == rootLifecycle'.shutdownCalls > rootLifecycle.shutdownCalls

\* C23: when stop() calls shutdown() of the root lifecycle, no init.func of a
\* module or of a plugin and no startup() of a plugin lifecycle called by the
\* start is still executing, also after a start() that one plugin has made
\* reject while others were initializing.
C23_ShutdownAfterStartupWork == [][ShutdownInvoked => ~InFlight]_vars

\* the factory a service factory feature f stands for
OverrideFactory(f) ==
    Factory(Catalog[f].service, Catalog[f].scope, Catalog[f].sdeps, Catalog[f].impl, FALSE)

\* the service ids of the defaults and of the features
ServiceIds ==
    ({ defaultApiFactories[i].id : i \in 1..Len(defaultApiFactories) }
        \cup { Catalog[f].service : f \in FeatureNames }) \ {""}

\* the step is the call of start() that starts the initialization
StartAccepted == ~Started /\ startPromise'.state = "pending"

\* C24: the registry of a start() holds the defaults followed by the
\* overrides added with add() before start(), and stays as it is: a service
\* factory returned by the discovery service is added to the override list
\* or rejected by the rules of add(), and the factory the registry resolves
\* for a service id never changes.
C24_RegistryFrozen ==
    /\ [][StartAccepted =>
            serviceHolder'.factories =
                defaultApiFactories \o
                    [i \in 1..Len(providedServiceFactories) |->
                        OverrideFactory(providedServiceFactories[i])]]_vars
    /\ [][Started => serviceHolder' = serviceHolder]_vars
    /\ [][DiscoveryStep =>
            /\ \A id \in ServiceIds :
                  FactoryFor(serviceHolder'.factories, id)
                      = FactoryFor(serviceHolder.factories, id)
            /\ \/ startPromise'.error.kind \in RuleErrors
               \/ providedServiceFactories' =
                     providedServiceFactories \o FactoriesOf(discovered)]_vars
    /\ [](Started =>
            \E k \in 0..Len(providedServiceFactories) :
                /\ serviceHolder.factories =
                      defaultApiFactories \o
                          [i \in 1..k |-> OverrideFactory(providedServiceFactories[i])]
                /\ pc = "discovery" => k = Len(providedServiceFactories)
                /\ \A i \in (k + 1)..Len(providedServiceFactories) :
                      providedServiceFactories[i] \in Range(discovered))

\* the discovery service returned the service factory Foo: it is in the
\* override list, start() has resolved, and the registry has no factory for
\* the service foo
C24_Witness ==
    /\ startPromise.state = "resolved"
    /\ "Foo" \in Range(discovered)
    /\ "Foo" \in Range(providedServiceFactories)
    /\ FactoryFor(serviceHolder.factories, "foo") = NoFactory

====
